---- MODULE Spec2Model ----
(***************************************************************************)
(* Session lifecycle and action-execution core of the Playwright agent.     *)
(*                                                                          *)
(* The module models                                                        *)
(*   - BrowserManager (playwrightToolHandler.ts): getBrowser and reset, one *)
(*     atomic step per stretch of code between two awaits;                  *)
(*   - safeBrowserOperation (browserBaseTools.ts);                          *)
(*   - navigateToUrl and closeBrowserTool (navigation tools);               *)
(*   - ToolCallLogger, runAgent, forceCloseBrowser, the process handlers    *)
(*     and main (langchain-agent.ts).                                       *)
(*                                                                          *)
(* JavaScript runs one stretch of synchronous code at a time, so every      *)
(* action below is the code from one await to the next.  A driver call      *)
(* (launch, newContext, newPage, close) takes effect in the step in which   *)
(* its await resumes.                                                       *)
(***************************************************************************)
EXTENDS Integers, Sequences, FiniteSets, TLC

\* ------------------------------------------------------------------ bounds
NCallers == 2
MaxLaunch == 2
MaxEnv == 1
MaxReset == 2
MaxTools == 1
MaxRetriesArg == 1

\* navigateToUrl: retryCount < 3, waitTime = 5000 * (retryCount + 1)
MaxNavRetries == 3
BackoffUnit == 5000

Null == 0
Callers == 1..NCallers
Exec == NCallers + 1
Threads == Callers \cup {Exec}
Resets == 1..MaxReset
Invokers == {"main", "sig"}
NoExit == 0 - 1
NoContext == 0 - 1

VARIABLES
  browser, context, page, isInitializing,   \* BrowserManager fields
  nextId, liveB, openC, openP,              \* driver objects: launched / open
  pc, tgt, ret,                             \* one getBrowser() call per thread
  rpc, rtgt,                                \* the reset() activation
  nEnv, nReset,                             \* budgets: driver failures and outside
                                            \* page closes; reset() calls
  how,                                      \* history: the path a call took at entry
  resetMark, staleP, rheldP,                \* history: what completed resets held
  rskip,                                    \* history: the closes a reset left out
                                            \* because an earlier close failed
  fresh, entryFresh, old,                   \* history: calls begun / results
                                            \* produced before the last reset's end
  mpc, verb, maxRetries, retries, failN,    \* main thread; safeBrowserOperation
  opCalls, lastError, delays, acqFails, waitFails, oppage,
  retryCount, waits, loads, navLoaded,      \* navigateToUrl
  reqLoads,                                 \* loads performed for the current request
  cpc, ctgt, cres,                          \* closeBrowserTool invocations
  creq,                                     \* history: the store's live browser at
                                            \* the time of a close request
  spc,                                      \* the process signal handler
  exitCode, exitBy, errMsg,                 \* process exit; message of the error
  nTools, hcloses, sigCloses, liveAtError,       \* budgets and history of a run
  chainErr,
  caught,                                   \* runAgent: the error its catch holds and throws
  output, verdict,                          \* handleChainEnd: its argument, the
                                            \* level it logged
  status, popOpen,                          \* handleCommonPopups: what each consent
                                            \* selector finds on the page; page open
  ppc, idx, clicks, clicked,                \* one invocation: position, loop index,
                                            \* selectors clicked, click resolved
  handlers, runs, dismissals                \* dialog listeners on the page; calls
                                            \* made; dismiss() calls per dialog

logVars == <<output, verdict>>
popVars == <<status, popOpen, ppc, idx, clicks, clicked, handlers, runs, dismissals>>
\* the callbacks and helpers that no step of the store or of a run touches
sideVars == <<logVars, popVars>>

storeVars == <<browser, context, page, isInitializing>>
worldVars == <<nextId, liveB, openC, openP>>
gbVars == <<pc, tgt, ret>>
resetVars == <<rpc, rtgt, rheldP, rskip>>
envVars == <<nEnv, nReset>>
histVars == <<how, resetMark, staleP, fresh, entryFresh, old>>
execVars == <<verb, maxRetries, retries, failN, opCalls, lastError, delays, acqFails, waitFails, oppage>>
navVars == <<retryCount, waits, loads, navLoaded, reqLoads>>
closeVars == <<cpc, ctgt, cres, creq>>
procVars == <<mpc, spc, exitCode, exitBy, errMsg, nTools, hcloses, sigCloses, liveAtError,
              chainErr, caught, sideVars>>
runVars == <<execVars, navVars, closeVars, procVars>>
procRest == <<spc, exitCode, exitBy, errMsg, nTools, hcloses, sigCloses, liveAtError, chainErr, caught, sideVars>>
execKeep == <<verb, maxRetries, failN, opCalls, acqFails, waitFails, oppage>>
runFrame == <<storeVars, worldVars, gbVars, resetVars, envVars, histVars>>
closeRest == <<worldVars, gbVars, nEnv, how>>
exitVars == <<exitCode, exitBy>>
vars == <<storeVars, worldVars, gbVars, resetVars, envVars, histVars, runVars>>

\* ------------------------------------------------------- BrowserManager
\* this.browser && this.page && !this.page.isClosed()
CanReuse_ignoreClosed == browser # Null /\ page # Null
CanReuse_never == FALSE
CanReuse == browser # Null /\ page # Null /\ page \in openP

\* if (this.isInitializing) / while (this.isInitializing)
MustWait_never == FALSE
MustWait == isInitializing

InitStore ==
  /\ browser = Null /\ context = Null /\ page = Null /\ isInitializing = FALSE
  /\ nextId = 0 /\ liveB = {} /\ openC = {} /\ openP = {}
  /\ pc = [t \in Threads |-> "idle"]
  /\ tgt = [t \in Threads |-> Null]
  /\ ret = [t \in Threads |-> <<Null, Null>>]
  /\ rpc = [r \in Resets |-> "idle"]
  /\ rtgt = [r \in Resets |-> Null]
  /\ rheldP = [r \in Resets |-> {}]
  /\ rskip = [r \in Resets |-> {}]
  /\ nEnv = 0 /\ nReset = 0
  /\ how = [t \in Threads |-> "none"]
  /\ resetMark = 0 /\ staleP = {}
  /\ fresh = FALSE
  /\ entryFresh = [t \in Threads |-> FALSE]
  /\ old = [t \in Threads |-> FALSE]

\* ------------------------------------------------- error messages as text
\* String.prototype.includes: k occurs in s as a contiguous, case-sensitive run
Includes(s, k) ==
  \E i \in 1..(Len(s) - Len(k) + 1) : SubSeq(s, i, i + Len(k) - 1) = k

InitRun ==
  /\ mpc = "main_start" /\ spc = "idle"
  /\ verb = "none" /\ maxRetries = 0 /\ retries = 0 /\ failN = 0
  /\ opCalls = 0 /\ lastError = <<"none", 0>> /\ delays = 0 /\ acqFails = 0 /\ waitFails = 0
  /\ oppage = Null
  /\ retryCount = 0 /\ waits = <<>> /\ loads = 0 /\ navLoaded = FALSE /\ reqLoads = 0
  /\ cpc = [i \in Invokers |-> "idle"]
  /\ ctgt = [i \in Invokers |-> Null]
  /\ cres = [i \in Invokers |-> "none"]
  /\ creq = [i \in Invokers |-> Null]
  /\ exitCode = NoExit /\ exitBy = "none" /\ errMsg = 0
  /\ nTools = 0 /\ hcloses = 0 /\ sigCloses = 0 /\ liveAtError = Null
  /\ chainErr = FALSE
  /\ caught = [error |-> "none", closeError |-> FALSE]

\* return { browser: this.browser, page: this.page }
GbReturn(t, b, p) ==
  /\ pc' = [pc EXCEPT ![t] = "gb_done"]
  /\ ret' = [ret EXCEPT ![t] = <<b, p>>]
  /\ tgt' = [tgt EXCEPT ![t] = Null]

\* the launch is begun without raising the flag
GbBeginLaunch_noFlag(t) ==
  /\ nextId < MaxLaunch
  /\ pc' = [pc EXCEPT ![t] = "gb_launch"]
  /\ UNCHANGED <<isInitializing, browser, context, page, tgt, ret>>
\* this.isInitializing = true; ... await chromium.launch(...)
GbBeginLaunch(t) ==
  /\ nextId < MaxLaunch
  /\ isInitializing' = TRUE
  /\ pc' = [pc EXCEPT ![t] = "gb_launch"]
  /\ UNCHANGED <<browser, context, page, tgt, ret>>

\* the error is rethrown with the flag left as it was
GbThrow_keepFlag(t) ==
  /\ UNCHANGED isInitializing
  /\ pc' = [pc EXCEPT ![t] = "gb_threw"]
  /\ tgt' = [tgt EXCEPT ![t] = Null]
  /\ UNCHANGED ret
\* catch (error) { throw error } finally { this.isInitializing = false }
GbThrow(t) ==
  /\ isInitializing' = FALSE
  /\ pc' = [pc EXCEPT ![t] = "gb_threw"]
  /\ tgt' = [tgt EXCEPT ![t] = Null]
  /\ UNCHANGED ret

\* getBrowser(), from the call to its first await or return
GbCall(t) ==
  /\ pc[t] = "idle"
  /\ entryFresh' = [entryFresh EXCEPT ![t] = fresh]
  /\ fresh' = FALSE
  /\ IF CanReuse
       THEN /\ GbReturn(t, browser, page)
            /\ how' = [how EXCEPT ![t] = "reuse"]
            /\ UNCHANGED storeVars
       ELSE IF MustWait
         THEN /\ pc' = [pc EXCEPT ![t] = "gb_poll"]
              /\ how' = [how EXCEPT ![t] = "poll"]
              /\ UNCHANGED <<storeVars, tgt, ret>>
         ELSE /\ GbBeginLaunch(t)
              /\ how' = [how EXCEPT ![t] = "launch"]
  /\ UNCHANGED <<worldVars, resetVars, envVars, resetMark, staleP, old>>

GbEnter(t) == GbCall(t) /\ UNCHANGED runVars

\* one turn of the poll loop that finds isInitializing false, and what follows
GbPoll(t) ==
  /\ pc[t] = "gb_poll"
  /\ ~MustWait
  /\ IF CanReuse
       THEN /\ GbReturn(t, browser, page)
            /\ UNCHANGED storeVars
       ELSE GbBeginLaunch(t)
  /\ UNCHANGED <<worldVars, resetVars, envVars, histVars, runVars>>

\* this.browser = await chromium.launch(...); this.browser.newContext(...) is issued
GbLaunched(t) ==
  /\ pc[t] = "gb_launch"
  /\ nextId' = nextId + 1
  /\ liveB' = liveB \cup {nextId + 1}
  /\ browser' = nextId + 1
  /\ pc' = [pc EXCEPT ![t] = "gb_ctx"]
  /\ tgt' = [tgt EXCEPT ![t] = nextId + 1]
  /\ UNCHANGED <<context, page, isInitializing, openC, openP, ret,
                 resetVars, envVars, histVars, runVars>>

\* a driver call of the launch sequence rejects
GbFail(t) ==
  /\ pc[t] \in {"gb_launch", "gb_ctx", "gb_page"}
  /\ \/ nEnv < MaxEnv /\ nEnv' = nEnv + 1
     \/ pc[t] = "gb_ctx" /\ tgt[t] \notin liveB /\ nEnv' = nEnv
     \/ pc[t] = "gb_page" /\ tgt[t] \notin openC /\ nEnv' = nEnv
  /\ GbThrow(t)
  /\ UNCHANGED <<browser, context, page, worldVars, resetVars, nReset, histVars, runVars>>

\* this.context = await this.browser.newContext(...); this.context.newPage() is issued
GbContext(t) ==
  /\ pc[t] = "gb_ctx"
  /\ tgt[t] \in liveB
  /\ openC' = openC \cup {tgt[t]}
  /\ context' = tgt[t]
  /\ pc' = [pc EXCEPT ![t] = "gb_page"]
  /\ UNCHANGED <<browser, page, isInitializing, nextId, liveB, openP, tgt, ret,
                 resetVars, envVars, histVars, runVars>>

\* this.page = await this.context.newPage(); return ...; finally
GbPage(t) ==
  /\ pc[t] = "gb_page"
  /\ tgt[t] \in openC
  /\ openP' = openP \cup {tgt[t]}
  /\ page' = tgt[t]
  /\ isInitializing' = FALSE
  /\ GbReturn(t, browser, tgt[t])
  /\ UNCHANGED <<browser, context, nextId, liveB, openC, resetVars, envVars, histVars,
                 runVars>>

\* ---------------------------------------------------------------- reset()
\* finally { this.page = null; this.context = null; this.browser = null }
ResetFinally_keep ==
  UNCHANGED <<browser, context, page>>
ResetFinally ==
  /\ page' = Null /\ context' = Null /\ browser' = Null

ResetEndWith(r, held, skipped) ==
  /\ ResetFinally
  /\ rskip' = [rskip EXCEPT ![r] = skipped]
  /\ rpc' = [rpc EXCEPT ![r] = "done"]
  /\ rtgt' = [rtgt EXCEPT ![r] = Null]
  /\ rheldP' = [rheldP EXCEPT ![r] = {}]
  /\ resetMark' = nextId
  /\ staleP' = staleP \cup held \cup ({page} \ {Null})
  /\ fresh' = TRUE
  /\ entryFresh' = [t \in Threads |-> FALSE]
  /\ old' = [t \in Threads |-> pc[t] = "gb_done"]
  /\ UNCHANGED isInitializing

\* reset() runs off the end of its try block
ResetEnd(r, held) == ResetEndWith(r, held, {})

\* reset() suspends at an awaited close of the object id
ResetAwait(r, kind, id, held) ==
  /\ rpc' = [rpc EXCEPT ![r] = kind]
  /\ rtgt' = [rtgt EXCEPT ![r] = id]
  /\ rheldP' = [rheldP EXCEPT ![r] = held]
  /\ UNCHANGED <<rskip, storeVars, resetMark, staleP, fresh, entryFresh, old>>

\* reset() runs on from its s-th guarded close to the next await, or to its end
ResetGo(r, s, held, open) ==
  IF s <= 1 /\ page # Null /\ page \in open
    THEN ResetAwait(r, "page", page, held)
    ELSE IF s <= 2 /\ context # Null
      THEN ResetAwait(r, "ctx", context, held)
      ELSE IF s <= 3 /\ browser # Null
        THEN ResetAwait(r, "brw", browser, held)
        ELSE ResetEnd(r, held)

\* the activation record a new reset() call takes
FreeSlot ==
  CHOOSE r \in Resets : rpc[r] = "idle" /\ \A q \in Resets : q < r => rpc[q] # "idle"

\* browserManager.reset() is called: the call runs to its first await
ResetCall ==
  /\ nReset < MaxReset
  /\ nReset' = nReset + 1
  /\ ResetGo(FreeSlot, 1, {page} \ {Null}, openP)

ResetStart ==
  /\ ResetCall
  /\ UNCHANGED <<worldVars, gbVars, nEnv, how, runVars>>

\* what page.close(), context.close(), browser.close() do to the driver objects
CloseEffect(kind, id) ==
  /\ openP' = openP \ {id}
  /\ openC' = IF kind \in {"ctx", "brw"} THEN openC \ {id} ELSE openC
  /\ liveB' = IF kind = "brw" THEN liveB \ {id} ELSE liveB
  /\ UNCHANGED nextId

\* the awaited close resolves and reset() runs on
ResetClosed(r) ==
  /\ rpc[r] \in {"page", "ctx", "brw"}
  /\ CloseEffect(rpc[r], rtgt[r])
  /\ ResetGo(r, CASE rpc[r] = "page" -> 2 [] rpc[r] = "ctx" -> 3 [] OTHER -> 4, rheldP[r],
             openP)
  /\ UNCHANGED <<gbVars, envVars, how, runVars>>

\* the guarded closes that follow the close at `level` in the try block and
\* whose guard holds
ClosesAfter(level) ==
  (IF level = "page" /\ context # Null THEN {"ctx"} ELSE {})
    \cup (IF level \in {"page", "ctx"} /\ browser # Null THEN {"brw"} ELSE {})

\* the rejection of the awaited close escapes reset()
ResetCloseFailed_throw(r) ==
  /\ rpc[r] \in {"page", "ctx", "brw"}
  /\ nEnv < MaxEnv
  /\ nEnv' = nEnv + 1
  /\ rpc' = [rpc EXCEPT ![r] = "threw"]
  /\ rtgt' = [rtgt EXCEPT ![r] = Null]
  /\ UNCHANGED <<rheldP, rskip, storeVars, resetMark, staleP, fresh, entryFresh, old>>
  /\ UNCHANGED <<worldVars, gbVars, nReset, how, runVars>>
\* the awaited close rejects: control leaves the try block for the catch, then
\* the finally
ResetCloseFailed(r) ==
  /\ rpc[r] \in {"page", "ctx", "brw"}
  /\ nEnv < MaxEnv
  /\ nEnv' = nEnv + 1
  /\ ResetEndWith(r, rheldP[r], ClosesAfter(rpc[r]))
  /\ UNCHANGED <<worldVars, gbVars, nReset, how, runVars>>

\* the page is closed from outside (the user closes the window, the page crashes)
EnvClosePage ==
  /\ nEnv < MaxEnv
  /\ \E p \in openP : openP' = openP \ {p}
  /\ nEnv' = nEnv + 1
  /\ UNCHANGED <<storeVars, nextId, liveB, openC, gbVars, resetVars, nReset, histVars,
                 runVars>>

\* ------------------------------------------- concurrent callers of the store
NextStore ==
  \/ \E t \in Callers : GbEnter(t)
  \/ \E t \in Callers : GbPoll(t)
  \/ \E t \in Callers : GbLaunched(t)
  \/ \E t \in Callers : GbContext(t)
  \/ \E t \in Callers : GbPage(t)
  \/ \E t \in Callers : GbFail(t)
  \/ ResetStart
  \/ \E r \in Resets : ResetClosed(r)
  \/ \E r \in Resets : ResetCloseFailed(r)
  \/ EnvClosePage

\* the state after the modules are loaded: an empty store, main not yet started
\* const commonConsentSelectors = [ ... ]: the length of the list
NSelectors == 13
Selectors == 1..NSelectors

\* no chain has ended yet
InitLog ==
  /\ output = [present |-> FALSE, text |-> <<>>]
  /\ verdict = "none"

\* handleCommonPopups was never called; no consent element on the page
InitPop ==
  /\ status = [i \in Selectors |-> "absent"]
  /\ popOpen = TRUE
  /\ ppc = "idle" /\ idx = 0 /\ clicks = << >> /\ clicked = FALSE
  /\ handlers = 0 /\ runs = 0 /\ dismissals = << >>

InitSide == InitLog /\ InitPop

Init == InitStore /\ InitRun /\ InitSide

SpecStore == Init /\ [][NextStore]_vars

\* ------------------------------------------------------------ claims, store
\* C1: when no launch step fails, no reset runs and no page is closed from
\* outside, exactly one browser is ever launched, and every getBrowser() call
\* returns that one browser and its page; in particular the calls that began
\* before the first session was Ready (the launching one and the polling ones).
C1_Singleton ==
  (nEnv = 0 /\ nReset = 0) =>
     /\ nextId <= 1
     /\ \A t \in Callers : pc[t] = "gb_done" => (nextId = 1 /\ ret[t] = <<1, 1>>)

\* C1 witness: all calls began before the first Ready (one launched, the
\* others polled) and all have returned
C1_Witness ==
  /\ nEnv = 0 /\ nReset = 0
  /\ \A t \in Callers : pc[t] = "gb_done" /\ how[t] \in {"launch", "poll"}
  /\ \E t \in Callers : how[t] = "poll"

\* C2: at most one browser that has been launched and not yet closed exists.
C2_OneLiveBrowser == Cardinality(liveB) <= 1

MsgList ==
  << \* critical: element not interactable
     <<"c", "r", "i", "t", "i", "c", "a", "l", ":", " ", "e", "l", "e", "m", "e", "n", "t", " ", "n", "o", "t", " ", "i", "n", "t", "e", "r", "a", "c", "t", "a", "b", "l", "e">>,
     \* page.click: Timeout 30000ms exceeded.
     <<"p", "a", "g", "e", ".", "c", "l", "i", "c", "k", ":", " ", "T", "i", "m", "e", "o", "u", "t", " ", "3", "0", "0", "0", "0", "m", "s", " ", "e", "x", "c", "e", "e", "d", "e", "d", ".">>,
     \* navigation timeout of 60000 ms
     <<"n", "a", "v", "i", "g", "a", "t", "i", "o", "n", " ", "t", "i", "m", "e", "o", "u", "t", " ", "o", "f", " ", "6", "0", "0", "0", "0", " ", "m", "s">>,
     \* Critical failure
     <<"C", "r", "i", "t", "i", "c", "a", "l", " ", "f", "a", "i", "l", "u", "r", "e">>,
     \* no element #missing
     <<"n", "o", " ", "e", "l", "e", "m", "e", "n", "t", " ", "#", "m", "i", "s", "s", "i", "n", "g">> >>
Msgs == 1..Len(MsgList)

KwCritical == <<"c", "r", "i", "t", "i", "c", "a", "l">>
KwTimeout == <<"t", "i", "m", "e", "o", "u", "t">>

\* error.message.includes("critical") || error.message.includes("timeout")
IsFatal_criticalOnly(m) == Includes(MsgList[m], KwCritical)
IsFatal(m) == Includes(MsgList[m], KwCritical) \/ Includes(MsgList[m], KwTimeout)

Running == exitBy = "none"


\* -------------------------------------------------------- closeBrowserTool
\* The second argument of the tool function, read as a ToolContext: it is
\* undefined (NoContext), an object without a browser field (Null), or an
\* object whose browser field is a launched browser.  The argument is supplied
\* by the caller of the function, so every invocation draws it from this set.
\* An invocation that throws before or at the first statement of the function
\* (invoke("{}") passes a string to a tool whose schema is z.object({})) has
\* the outcome of NoContext: it throws and changes nothing.
Contexts == {NoContext, Null} \cup (1..nextId)

resetFrame == <<browser, context, page, isInitializing, rpc, rtgt, rheldP, rskip,
                resetMark, staleP, fresh, entryFresh, old>>

CloseReturn(inv, res) ==
  /\ cpc' = [cpc EXCEPT ![inv] = "done"]
  /\ cres' = [cres EXCEPT ![inv] = res]
  /\ ctgt' = [ctgt EXCEPT ![inv] = Null]

\* closeBrowserTool.invoke(...): the tool function up to its first await or return
CloseBegin(inv, ctx) ==
  /\ cpc[inv] = "idle"
  /\ creq' = [creq EXCEPT ![inv] = IF browser \in liveB THEN browser ELSE Null]
  /\ IF ctx = NoContext
       THEN \* toolContext.browser on undefined throws
            CloseReturn(inv, "threw") /\ UNCHANGED <<resetFrame, nReset>>
       ELSE IF ctx = Null
         THEN \* return "No browser instance to close"
              CloseReturn(inv, "nosession") /\ UNCHANGED <<resetFrame, nReset>>
         ELSE IF ctx \in liveB
           THEN \* browser.isConnected(): await browser.close().catch(...)
                /\ nReset < MaxReset
                /\ nReset' = nReset + 1
                /\ cpc' = [cpc EXCEPT ![inv] = "closing"]
                /\ ctgt' = [ctgt EXCEPT ![inv] = ctx]
                /\ UNCHANGED <<cres, resetFrame>>
           ELSE \* already disconnected: finally resetBrowserState(); return
                /\ nReset < MaxReset
                /\ nReset' = nReset + 1
                /\ ResetGo(FreeSlot, 1, {page} \ {Null}, openP)
                /\ CloseReturn(inv, "closed")

\* browser.close() resolves, or rejects into its .catch; finally
\* resetBrowserState() starts reset() without awaiting it; return
CloseResolved(inv) ==
  /\ Running
  /\ cpc[inv] = "closing"
  /\ \/ /\ CloseEffect("brw", ctgt[inv])
        /\ ResetGo(FreeSlot, 1, {page} \ {Null}, openP \ {ctgt[inv]})
        /\ UNCHANGED nEnv
     \/ /\ nEnv < MaxEnv
        /\ nEnv' = nEnv + 1
        /\ ResetGo(FreeSlot, 1, {page} \ {Null}, openP)
        /\ UNCHANGED worldVars
  /\ CloseReturn(inv, "closed")
  /\ UNCHANGED <<creq, gbVars, nReset, how, execVars, navVars, procVars>>

\* the invoker has taken the result of its closeBrowserTool call
CloseTaken(inv) ==
  /\ cpc' = [cpc EXCEPT ![inv] = "idle"]
  /\ cres' = [cres EXCEPT ![inv] = "none"]
  /\ creq' = [creq EXCEPT ![inv] = Null]
  /\ UNCHANGED ctgt

\* ---------------------------------------------------- safeBrowserOperation
\* while (retries <= maxRetries) / if (retries <= maxRetries)
RetryAllowed_strict(r, m) == r < m
RetryAllowed(r, m) == r <= m

\* the locals of a finished safeBrowserOperation / navigateToUrl call are gone
ExecLocalsGone ==
  /\ maxRetries' = 0 /\ retries' = 0 /\ failN' = 0
  /\ opCalls' = 0 /\ lastError' = <<"none", 0>> /\ delays' = 0 /\ acqFails' = 0 /\ waitFails' = 0
  /\ oppage' = Null

ExecGone ==
  /\ verb' = "none"
  /\ ExecLocalsGone

NavCallGone ==
  /\ retryCount' = 0 /\ waits' = <<>> /\ loads' = 0 /\ navLoaded' = FALSE

\* the request is over: so is the count of the loads it performed
NavGone ==
  /\ NavCallGone
  /\ reqLoads' = 0

\* process.exit(code): the process and all of its memory are gone; the driver
\* objects it launched, and the record of what the run did, remain
Exit(code, by) ==
  /\ exitCode' = code
  /\ exitBy' = by
  /\ mpc' = "exited" /\ spc' = "exited"
  /\ browser' = Null /\ context' = Null /\ page' = Null /\ isInitializing' = FALSE
  /\ pc' = [t \in Threads |-> "idle"]
  /\ tgt' = [t \in Threads |-> Null]
  /\ ret' = [t \in Threads |-> <<Null, Null>>]
  /\ rpc' = [r \in Resets |-> "idle"]
  /\ rtgt' = [r \in Resets |-> Null]
  /\ rheldP' = [r \in Resets |-> {}]
  /\ rskip' = [r \in Resets |-> {}]
  /\ how' = [t \in Threads |-> "none"]
  /\ resetMark' = 0 /\ staleP' = {} /\ fresh' = FALSE
  /\ entryFresh' = [t \in Threads |-> FALSE]
  /\ old' = [t \in Threads |-> FALSE]
  /\ ExecGone /\ NavGone
  /\ cpc' = [i \in Invokers |-> "idle"]
  /\ ctgt' = [i \in Invokers |-> Null]
  /\ cres' = [i \in Invokers |-> "none"]
  /\ creq' = [i \in Invokers |-> Null]
  /\ UNCHANGED <<worldVars, envVars, errMsg, nTools, hcloses, sigCloses, liveAtError, chainErr, caught, sideVars>>

\* one attempt begins: const { page } = await ensureBrowser()
ExAttempt ==
  /\ GbCall(Exec)
  /\ mpc' = "ex_acq"

\* safeBrowserOperation(context, operation, maxRetries) is called
ExBegin(v, mr, n) ==
  /\ verb' = v /\ maxRetries' = mr /\ failN' = n
  /\ retries' = 0 /\ lastError' = <<"none", 0>>
  /\ opCalls' = 0 /\ delays' = 0 /\ acqFails' = 0 /\ waitFails' = 0 /\ oppage' = Null
  /\ IF RetryAllowed(0, mr)
       THEN ExAttempt
       ELSE mpc' = "ex_threw" /\ UNCHANGED runFrame

\* the catch block delays after every failed attempt, the last one too
ExCatch_delayAlways(e) ==
  /\ lastError' = e
  /\ retries' = retries + 1
  /\ delays' = delays + 1
  /\ mpc' = IF RetryAllowed(retries + 1, maxRetries) THEN "ex_delay" ELSE "ex_threw"
\* catch (error): lastError = error; retries++; delay before a retry, or throw
ExCatch(e) ==
  /\ lastError' = e
  /\ retries' = retries + 1
  /\ IF RetryAllowed(retries + 1, maxRetries)
       THEN mpc' = "ex_delay" /\ delays' = delays + 1
       ELSE mpc' = "ex_threw" /\ UNCHANGED delays

\* ensureBrowser() returned the page; page.waitForLoadState is issued
ExAcquired ==
  /\ Running
  /\ mpc = "ex_acq"
  /\ pc[Exec] = "gb_done"
  /\ oppage' = ret[Exec][2]
  /\ pc' = [pc EXCEPT ![Exec] = "idle"]
  /\ ret' = [ret EXCEPT ![Exec] = <<Null, Null>>]
  /\ how' = [how EXCEPT ![Exec] = "none"]
  /\ entryFresh' = [entryFresh EXCEPT ![Exec] = FALSE]
  /\ old' = [old EXCEPT ![Exec] = FALSE]
  /\ mpc' = "ex_wait"
  /\ UNCHANGED <<storeVars, worldVars, tgt, resetVars, envVars, resetMark, staleP, fresh,
                 verb, maxRetries, retries, failN, opCalls, lastError, delays, acqFails, waitFails,
                 navVars, closeVars, spc, exitCode, exitBy, errMsg, nTools, hcloses,
                 sigCloses, liveAtError, chainErr, caught, sideVars>>

\* ensureBrowser() threw: the loop goes round again without counting the attempt
ExAcquireFailed_uncounted ==
  /\ Running
  /\ mpc = "ex_acq"
  /\ pc[Exec] = "gb_threw"
  /\ pc' = [pc EXCEPT ![Exec] = "idle"]
  /\ how' = [how EXCEPT ![Exec] = "none"]
  /\ entryFresh' = [entryFresh EXCEPT ![Exec] = FALSE]
  /\ acqFails' = acqFails + 1
  /\ lastError' = <<"launch", 0>>
  /\ mpc' = "ex_delay" /\ delays' = delays + 1
  /\ UNCHANGED <<storeVars, worldVars, tgt, ret, resetVars, envVars, resetMark, staleP,
                 fresh, old, verb, maxRetries, retries, failN, opCalls, waitFails, oppage,
                 navVars, closeVars, spc, exitCode, exitBy, errMsg, nTools, hcloses,
                 sigCloses, liveAtError, chainErr, caught, sideVars>>
\* ensureBrowser() threw: the attempt ends in the catch block
ExAcquireFailed ==
  /\ Running
  /\ mpc = "ex_acq"
  /\ pc[Exec] = "gb_threw"
  /\ pc' = [pc EXCEPT ![Exec] = "idle"]
  /\ how' = [how EXCEPT ![Exec] = "none"]
  /\ entryFresh' = [entryFresh EXCEPT ![Exec] = FALSE]
  /\ acqFails' = acqFails + 1
  /\ ExCatch(<<"launch", 0>>)
  /\ UNCHANGED <<storeVars, worldVars, tgt, ret, resetVars, envVars, resetMark, staleP,
                 fresh, old, verb, maxRetries, failN, opCalls, waitFails, oppage,
                 navVars, closeVars, spc, exitCode, exitBy, errMsg, nTools, hcloses,
                 sigCloses, liveAtError, chainErr, caught, sideVars>>

\* const result = await operation(page): the operation is invoked
ExInvoke ==
  /\ opCalls' = opCalls + 1
  /\ IF verb = "navigate"
       THEN /\ mpc' = "nav_load"
            /\ NavCallGone /\ UNCHANGED reqLoads
       ELSE /\ mpc' = "ex_op"
            /\ UNCHANGED navVars
  /\ UNCHANGED <<lastError, retries, delays>>

\* the rejection of the wait reaches the attempt's catch block
ExWaitRejected_consume ==
  /\ ExCatch(<<"prewait", opCalls>>)
  /\ UNCHANGED <<opCalls, navVars>>
\* .catch(() => logger.warn(...)): the rejection is logged and the attempt
\* goes on to the operation
ExWaitRejected ==
  ExInvoke

\* await page.waitForLoadState("domcontentloaded").catch(...) settles: the wait
\* resolves on an open page, or rejects (a timeout, a closed page)
ExLoadState ==
  /\ Running
  /\ mpc = "ex_wait"
  /\ \/ /\ oppage \in openP
        /\ waitFails' = waitFails
        /\ ExInvoke
     \/ /\ waitFails' = waitFails + 1
        /\ ExWaitRejected
  /\ UNCHANGED <<storeVars, worldVars, gbVars, resetVars, envVars, histVars,
                 verb, maxRetries, failN, acqFails, oppage,
                 closeVars, spc, exitCode, exitBy, errMsg, nTools, hcloses, sigCloses,
                 liveAtError, chainErr, caught, sideVars>>

\* the operation (click, type, goBack, ...) settles: it rejects in its first
\* failN invocations and resolves in the next one
ExOpDone ==
  /\ Running
  /\ mpc = "ex_op"
  /\ IF opCalls <= failN
       THEN ExCatch(<<"op", opCalls>>)
       ELSE mpc' = "ex_ok" /\ UNCHANGED <<lastError, retries, delays>>
  /\ UNCHANGED <<runFrame, verb, maxRetries, failN, opCalls, acqFails, waitFails, oppage,
                 navVars, closeVars, procRest>>

\* the 1 s delay is over: the loop runs its next attempt
ExDelay ==
  /\ Running
  /\ mpc = "ex_delay"
  /\ ExAttempt
  /\ NavCallGone /\ UNCHANGED reqLoads
  /\ UNCHANGED <<worldVars, resetVars, envVars, resetMark, staleP, old,
                 execVars, closeVars, procRest>>

\* ------------------------------------------------------------ navigateToUrl
\* if (retryCount < 3)
NavMayRetry(rc) == rc < MaxNavRetries

\* const waitTime = 5000 * (retryCount + 1)
WaitTime_flat(rc) == BackoffUnit
WaitTime(rc) == BackoffUnit * (rc + 1)

navFrame == <<runFrame, closeVars, procRest>>

\* Promise.all([page.waitForNavigation(...), page.goto(url, ...)]) resolves
NavLoadOk ==
  /\ Running
  /\ mpc = "nav_load"
  /\ oppage \in openP
  /\ loads' = loads + 1 /\ reqLoads' = reqLoads + 1
  /\ navLoaded' = TRUE
  /\ mpc' = "nav_dom"
  /\ UNCHANGED <<navFrame, execVars, retryCount, waits>>

\* the load rejects: wait and retry, or rethrow once the retries are used up
NavLoadFail_rethrow ==
  /\ Running
  /\ mpc = "nav_load"
  /\ loads' = loads + 1 /\ reqLoads' = reqLoads + 1
  /\ IF NavMayRetry(retryCount)
       THEN /\ waits' = Append(waits, WaitTime(retryCount))
            /\ mpc' = "nav_backoff"
            /\ UNCHANGED <<lastError, retries, delays>>
       ELSE /\ ExCatch(<<"navload", opCalls>>)
            /\ UNCHANGED waits
  /\ UNCHANGED <<navFrame, execKeep, retryCount, navLoaded>>
\* the load rejects: catch; wait and retry, or give the load up silently
NavLoadFail ==
  /\ Running
  /\ mpc = "nav_load"
  /\ loads' = loads + 1 /\ reqLoads' = reqLoads + 1
  /\ IF NavMayRetry(retryCount)
       THEN /\ waits' = Append(waits, WaitTime(retryCount))
            /\ mpc' = "nav_backoff"
       ELSE /\ mpc' = "nav_dom"
            /\ UNCHANGED waits
  /\ UNCHANGED <<navFrame, execVars, retryCount, navLoaded>>

\* page.waitForTimeout(waitTime) is over: return openInternal(retryCount + 1)
NavBackoffDone ==
  /\ Running
  /\ mpc = "nav_backoff"
  /\ oppage \in openP
  /\ retryCount' = retryCount + 1
  /\ mpc' = "nav_load"
  /\ UNCHANGED <<navFrame, execVars, waits, loads, navLoaded, reqLoads>>

\* page.waitForTimeout rejects on a closed page: navigateToUrl throws
NavBackoffThrow ==
  /\ Running
  /\ mpc = "nav_backoff"
  /\ oppage \notin openP
  /\ ExCatch(<<"navwait", opCalls>>)
  /\ UNCHANGED <<navFrame, execKeep, navVars>>

\* page.waitForLoadState("domcontentloaded", { timeout: 60000 }) resolves:
\* return `Navigated to ${url}`
NavDomOk ==
  /\ Running
  /\ mpc = "nav_dom"
  /\ oppage \in openP
  /\ mpc' = "ex_ok"
  /\ UNCHANGED <<navFrame, execVars, navVars>>

\* the wait for the DOM times out, or the page is closed: navigateToUrl throws
NavDomFail ==
  /\ Running
  /\ mpc = "nav_dom"
  /\ \/ nEnv < MaxEnv /\ nEnv' = nEnv + 1
     \/ oppage \notin openP /\ nEnv' = nEnv
  /\ ExCatch(<<"navdom", opCalls>>)
  /\ UNCHANGED <<storeVars, worldVars, gbVars, resetVars, nReset, histVars,
                 closeVars, procRest, execKeep, navVars>>

\* ------------------------------------------------------------ ToolCallLogger
handlerRest == <<spc, nTools, sigCloses, chainErr, caught, sideVars>>

\* handleToolError(error): log, then await closeBrowserTool.invoke("{}")
ToolError_noClose ==
  /\ Running
  /\ mpc = "ex_threw"
  /\ \E m \in Msgs : errMsg' = m
  /\ liveAtError' = IF browser \in liveB THEN browser ELSE Null
  /\ hcloses' = 0
  /\ cpc' = [cpc EXCEPT !["main"] = "done"]
  /\ mpc' = "te_close"
  /\ ExecLocalsGone /\ NavGone
  /\ UNCHANGED <<runFrame, verb, ctgt, cres, creq, handlerRest, exitVars>>
ToolError ==
  /\ Running
  /\ mpc = "ex_threw"
  /\ \E m \in Msgs : errMsg' = m
  /\ liveAtError' = IF browser \in liveB THEN browser ELSE Null
  /\ hcloses' = 1
  /\ \E ctx \in Contexts : CloseBegin("main", ctx)
  /\ mpc' = "te_close"
  /\ ExecLocalsGone /\ NavGone
  /\ UNCHANGED <<closeRest, verb, handlerRest, exitVars>>

\* the try/catch around the close is over: exit on a fatal message, else return
TeAfterClose ==
  /\ Running
  /\ mpc = "te_close"
  /\ cpc["main"] = "done"
  /\ IF IsFatal(errMsg)
       THEN Exit(1, "toolError")
       ELSE /\ CloseTaken("main")
            /\ mpc' = "te_done"
            /\ UNCHANGED <<runFrame, execVars, navVars, handlerRest, exitVars, errMsg,
                           hcloses, liveAtError>>

\* handleToolError has returned; the agent run goes on
TeReturn ==
  /\ Running
  /\ mpc = "te_done"
  /\ mpc' = "planner"
  /\ errMsg' = 0 /\ liveAtError' = Null /\ hcloses' = 0
  /\ verb' = "none"
  /\ UNCHANGED <<runFrame, maxRetries, retries, failN, opCalls, lastError, delays,
                 acqFails, waitFails, oppage, navVars, closeVars, handlerRest, exitVars>>

\* handleToolEnd(output): the action's result goes back to the planner
ToolEnd ==
  /\ Running
  /\ mpc = "ex_ok"
  /\ mpc' = "planner"
  /\ ExecGone /\ NavGone
  /\ UNCHANGED <<runFrame, closeVars, procRest>>

\* handleChainError(error): log, then await closeBrowserTool.invoke("{}")
ChainError ==
  /\ Running
  /\ mpc = "planner"
  /\ \E m \in Msgs : errMsg' = m
  /\ chainErr' = TRUE
  /\ liveAtError' = IF browser \in liveB THEN browser ELSE Null
  /\ hcloses' = 1
  /\ \E ctx \in Contexts : CloseBegin("main", ctx)
  /\ mpc' = "ce_close"
  /\ UNCHANGED <<closeRest, execVars, navVars, spc, nTools, sigCloses, exitVars, caught, sideVars>>

\* the try/catch around the close is over: process.exit(1)
CeAfterClose ==
  /\ Running
  /\ mpc = "ce_close"
  /\ cpc["main"] = "done"
  /\ Exit(1, "chainError")

\* ------------------------------------------------------ the agent's planner
\* The planner (the language model behind agentExecutor.invoke) picks the next
\* action: a page action or a navigation through safeBrowserOperation ...
PlannerCallTool ==
  /\ Running
  /\ mpc = "planner"
  /\ nTools < MaxTools
  /\ nTools' = nTools + 1
  /\ \E mr \in 0..MaxRetriesArg :
        \/ \E n \in 0..(MaxRetriesArg + 1) : ExBegin("generic", mr, n)
        \/ ExBegin("navigate", mr, 0)
  /\ UNCHANGED <<worldVars, resetVars, envVars, resetMark, staleP, old,
                 navVars, closeVars, spc, exitVars, errMsg, hcloses, sigCloses, liveAtError,
                 chainErr, caught, sideVars>>

\* ... or the close_browser tool
PlannerCallClose ==
  /\ Running
  /\ mpc = "planner"
  /\ nTools < MaxTools
  /\ nTools' = nTools + 1
  /\ verb' = "close"
  /\ \E ctx \in Contexts : CloseBegin("main", ctx)
  /\ mpc' = "tc_close"
  /\ UNCHANGED <<closeRest, maxRetries, retries, failN, opCalls, lastError, delays,
                 acqFails, waitFails, oppage, navVars, spc, exitVars, errMsg, hcloses, sigCloses,
                 liveAtError, chainErr, caught, sideVars>>

\* the close_browser tool call settles: handleToolEnd, or handleToolError
TcAfterClose ==
  /\ Running
  /\ mpc = "tc_close"
  /\ cpc["main"] = "done"
  /\ CloseTaken("main")
  /\ IF cres["main"] = "threw"
       THEN mpc' = "ex_threw" /\ UNCHANGED verb
       ELSE mpc' = "planner" /\ verb' = "none"
  /\ UNCHANGED <<runFrame, maxRetries, retries, failN, opCalls, lastError, delays,
                 acqFails, waitFails, oppage, navVars, procRest>>

\* ------------------------------------------------------------------ runAgent
\* main calls runAgent(input): await createAgentWithMemory()
MainStart ==
  /\ Running
  /\ mpc = "main_start"
  /\ mpc' = "ra_start"
  /\ UNCHANGED <<runFrame, execVars, navVars, closeVars, procRest>>

\* the agent is built: await agentExecutor.invoke({ input }); handleChainStart
AgentCreated ==
  /\ Running
  /\ mpc = "ra_start"
  /\ mpc' = "planner"
  /\ UNCHANGED <<runFrame, execVars, navVars, closeVars, procRest>>

\* invoke resolves (handleChainEnd): try { await closeBrowserTool.invoke({}) }
RunAgentFinish_noClose ==
  /\ Running
  /\ mpc = "planner"
  /\ hcloses' = 0
  /\ cpc' = [cpc EXCEPT !["main"] = "done"]
  /\ mpc' = "ra_close"
  /\ UNCHANGED <<runFrame, execVars, navVars, ctgt, cres, creq, handlerRest, exitVars, errMsg,
                 liveAtError>>
RunAgentFinish ==
  /\ Running
  /\ mpc = "planner"
  /\ hcloses' = 1
  /\ \E ctx \in Contexts : CloseBegin("main", ctx)
  /\ mpc' = "ra_close"
  /\ UNCHANGED <<closeRest, execVars, navVars, handlerRest, exitVars, errMsg, liveAtError>>

\* a close attempt that threw makes runAgent throw
RunAgentReturn_escalate ==
  /\ Running
  /\ mpc = "ra_close"
  /\ cpc["main"] = "done"
  /\ cpc' = [cpc EXCEPT !["main"] = "idle"]
  /\ mpc' = IF cres["main"] = "threw" THEN "ra_threw" ELSE "ra_ret"
  /\ UNCHANGED <<runFrame, execVars, navVars, ctgt, cres, creq, procRest>>
\* the close attempt is over (logged as closed, or as a warning in the catch):
\* return result.  The outcome of the close attempt stays on record in cres.
RunAgentReturn ==
  /\ Running
  /\ mpc = "ra_close"
  /\ cpc["main"] = "done"
  /\ cpc' = [cpc EXCEPT !["main"] = "idle"]
  /\ mpc' = "ra_ret"
  /\ UNCHANGED <<runFrame, execVars, navVars, ctgt, cres, creq, procRest>>

\* createAgentWithMemory or invoke rejects: catch (error) { try { await
\* closeBrowserTool.invoke({}) } ... }
RunAgentCatch ==
  /\ Running
  /\ mpc \in {"ra_start", "planner"}
  /\ hcloses' = 1
  /\ \E ctx \in Contexts : CloseBegin("main", ctx)
  /\ mpc' = "rc_close"
  /\ caught' = [error |-> "original", closeError |-> FALSE]
  /\ UNCHANGED <<closeRest, execVars, navVars, spc, nTools, sigCloses, chainErr, sideVars,
                 exitVars, errMsg, liveAtError>>

\* the error of a close attempt that threw replaces the caught one
RunAgentThrow_closeError ==
  /\ Running
  /\ mpc = "rc_close"
  /\ cpc["main"] = "done"
  /\ caught' = [error |-> IF cres["main"] = "threw" THEN "close" ELSE caught.error,
                closeError |-> cres["main"] = "threw"]
  /\ CloseTaken("main")
  /\ mpc' = "ra_threw"
  /\ UNCHANGED <<runFrame, execVars, navVars, spc, exitCode, exitBy, errMsg, nTools, hcloses,
                 sigCloses, liveAtError, chainErr, sideVars>>
\* the close attempt is over, its error (closeError) logged and dropped:
\* throw error
RunAgentThrow ==
  /\ Running
  /\ mpc = "rc_close"
  /\ cpc["main"] = "done"
  /\ caught' = [caught EXCEPT !.closeError = (cres["main"] = "threw")]
  /\ CloseTaken("main")
  /\ mpc' = "ra_threw"
  /\ UNCHANGED <<runFrame, execVars, navVars, spc, exitCode, exitBy, errMsg, nTools, hcloses,
                 sigCloses, liveAtError, chainErr, sideVars>>

\* ---------------------------------------------------------------------- main
\* runAgent resolved: main logs the response and returns
MainDone ==
  /\ Running
  /\ mpc = "ra_ret"
  /\ mpc' = "main_done"
  /\ UNCHANGED <<runFrame, execVars, navVars, closeVars, procRest>>

\* catch (error) in main: try { await closeBrowserTool.invoke({}) } catch {}
MainCatch ==
  /\ Running
  /\ mpc \in {"main_start", "ra_threw"}
  /\ hcloses' = 1
  /\ \E ctx \in Contexts : CloseBegin("main", ctx)
  /\ mpc' = "mc_close"
  /\ UNCHANGED <<closeRest, execVars, navVars, handlerRest, exitVars, errMsg, liveAtError>>

\* process.exit(1)
MainCatchExit ==
  /\ Running
  /\ mpc = "mc_close"
  /\ cpc["main"] = "done"
  /\ Exit(1, "mainCatch")

\* ------------------------------------------------------ process-level handlers
Signals == {"SIGINT", "uncaught"}

\* process.on("SIGINT" / "uncaughtException"): await forceCloseBrowser()
SigArrive(kind) ==
  /\ Running
  /\ spc = "idle"
  /\ mpc # "main_done"
  /\ spc' = kind
  /\ sigCloses' = sigCloses + 1
  /\ \E ctx \in Contexts : CloseBegin("sig", ctx)
  /\ UNCHANGED <<closeRest, execVars, navVars, mpc, exitVars, errMsg, nTools, hcloses,
                 liveAtError, chainErr, caught, sideVars>>

\* forceCloseBrowser() lets the tool's error escape the signal handler
SigExit_escalate ==
  /\ Running
  /\ spc \in Signals
  /\ cpc["sig"] = "done"
  /\ Exit(IF spc = "SIGINT" /\ cres["sig"] # "threw" THEN 0 ELSE 1,
          IF cres["sig"] = "threw" THEN "uncaught" ELSE spc)
\* forceCloseBrowser() returned: process.exit(0) for SIGINT, process.exit(1)
\* for an uncaught exception
SigExit ==
  /\ Running
  /\ spc \in Signals
  /\ cpc["sig"] = "done"
  /\ Exit(IF spc = "SIGINT" THEN 0 ELSE 1, spc)

\* ---------------------------------------------------------------- one run
\* the store's steps on behalf of the run's getBrowser() and reset() calls
StoreStep ==
  /\ Running
  /\ \/ GbLaunched(Exec)
     \/ GbContext(Exec)
     \/ GbPage(Exec)
     \/ GbFail(Exec)
     \/ \E r \in Resets : ResetClosed(r)
     \/ \E r \in Resets : ResetCloseFailed(r)
     \/ EnvClosePage

NextRun ==
  \/ MainStart \/ AgentCreated
  \/ PlannerCallTool \/ PlannerCallClose \/ TcAfterClose
  \/ ExAcquired \/ ExAcquireFailed \/ ExLoadState \/ ExOpDone \/ ExDelay
  \/ NavLoadOk \/ NavLoadFail \/ NavBackoffDone \/ NavBackoffThrow
  \/ NavDomOk \/ NavDomFail
  \/ ToolEnd \/ ToolError \/ TeAfterClose \/ TeReturn
  \/ ChainError \/ CeAfterClose
  \/ RunAgentFinish \/ RunAgentReturn \/ RunAgentCatch \/ RunAgentThrow
  \/ MainDone \/ MainCatch \/ MainCatchExit
  \/ CloseResolved("main")
  \/ StoreStep

SpecRun == Init /\ [][NextRun]_vars

\* ------------------------------------- one run under process-level events
NextProc ==
  \/ NextRun
  \/ \E kind \in Signals : SigArrive(kind)
  \/ CloseResolved("sig")
  \/ SigExit

SpecProc == Init /\ [][NextProc]_vars

\* -------------------------------------------------------- claims, one run
\* C4 as stated: for an operation that fails its first N invocations and then
\* succeeds, safeBrowserOperation(op, maxRetries) invokes it exactly N+1 times
\* and returns when N <= maxRetries, and invokes it exactly maxRetries+1 times
\* and throws the error of the last invocation when N > maxRetries.
C4_AsStated ==
  (verb = "generic" /\ mpc \in {"ex_ok", "ex_threw"}) =>
     IF failN <= maxRetries
       THEN mpc = "ex_ok" /\ opCalls = failN + 1
       ELSE /\ mpc = "ex_threw"
            /\ opCalls = maxRetries + 1
            /\ lastError = <<"op", maxRetries + 1>>

\* C4, amended: the statement holds for every call in which each attempt's
\* ensureBrowser() succeeds (an attempt whose ensureBrowser() throws is used up
\* without invoking the operation).
C4_RetryBound ==
  (verb = "generic" /\ mpc \in {"ex_ok", "ex_threw"} /\ acqFails = 0) =>
     IF failN <= maxRetries
       THEN mpc = "ex_ok" /\ opCalls = failN + 1
       ELSE /\ mpc = "ex_threw"
            /\ opCalls = maxRetries + 1
            /\ lastError = <<"op", maxRetries + 1>>

\* C4 witness: default maxRetries, an operation that fails twice: two
\* invocations, one delay, then the second invocation's error is thrown
C4_Witness ==
  /\ verb = "generic" /\ mpc = "ex_threw" /\ acqFails = 0
  /\ maxRetries = 1 /\ failN = 2
  /\ opCalls = 2 /\ delays = 1
  /\ lastError = <<"op", 2>>

\* C5: in navigateToUrl the i-th retry of the load is preceded by a wait of
\* exactly 5000*i ms, at most 3 retries (4 loads) are made, no wait follows a
\* successful load or the 4th failed load, the load step does not throw after
\* the 4th failure, and a load that fails k <= 3 times and then succeeds has
\* seen exactly the waits 5000, ..., 5000*k when success is reported.
C5_Backoff ==
  /\ (verb = "navigate" /\ mpc \in {"nav_load", "nav_backoff", "nav_dom", "ex_ok",
                                     "ex_delay", "ex_threw"}) =>
        /\ Len(waits) <= 3 /\ loads <= 4
        /\ \A i \in 1..Len(waits) : waits[i] = 5000 * i
  /\ mpc = "nav_load" => (Len(waits) = loads /\ retryCount = loads /\ ~navLoaded)
  /\ mpc = "nav_backoff" => (Len(waits) = loads /\ ~navLoaded)
  /\ (mpc = "nav_dom" \/ (verb = "navigate" /\ mpc = "ex_ok")) =>
        IF navLoaded THEN Len(waits) = loads - 1
                     ELSE loads = 4 /\ Len(waits) = 3
  /\ (verb = "navigate" /\ mpc \in {"ex_delay", "ex_threw"} /\ lastError[1] = "navwait") =>
        (loads <= 3 /\ Len(waits) = loads)

\* C5 witness (Scenario A): the load fails twice, then succeeds; success is
\* reported after the waits 5000, 10000
C5_Witness ==
  /\ verb = "navigate" /\ mpc = "ex_ok"
  /\ navLoaded /\ loads = 3
  /\ waits = <<5000, 10000>>

\* C6: when an action has failed after the executor's retries and the
\* tool-error handler has made its close attempt (and no reset is still
\* running), the store holds no browser, context or page and the browser that
\* was live when the handler began is closed.
C6_ClosedAfterToolError ==
  ( /\ verb \in {"generic", "navigate"}
    /\ \/ mpc = "te_close" /\ cpc["main"] = "done"
       \/ mpc = "te_done"
    /\ \A r \in Resets : rpc[r] \in {"idle", "done"} ) =>
     /\ browser = Null /\ context = Null /\ page = Null
     /\ liveAtError \notin liveB

\* the message contains "critical" or "timeout"
HasFatalKeyword(m) ==
  Includes(MsgList[m], KwCritical) \/ Includes(MsgList[m], KwTimeout)

\* C7: on a tool error the process exits, with a non-zero status, if and only
\* if the message contains "critical" or "timeout"; for every other message
\* handleToolError returns and the run goes on.
C7_ExitIffFatal ==
  /\ exitBy = "toolError" => (exitCode > 0 /\ HasFatalKeyword(errMsg))
  /\ mpc = "te_done" => (exitBy = "none" /\ exitCode = NoExit /\ ~HasFatalKeyword(errMsg))

\* C7 witness: a tool error "navigation timeout of 60000 ms" has ended the process
C7_Witness ==
  /\ exitBy = "toolError" /\ exitCode = 1
  /\ errMsg = 3

\* C8: for a tool error with a fatal keyword the handler attempts the session
\* close exactly once before the process exits, and the exit code is non-zero.
C8_FatalToolError ==
  exitBy = "toolError" => (hcloses = 1 /\ exitCode > 0)

\* C8 witness (Scenario C): "critical: element not interactable"
C8_Witness ==
  /\ exitBy = "toolError" /\ errMsg = 1
  /\ hcloses = 1 /\ exitCode = 1

\* C9: on every chain error, when the handler's close attempt is over, the
\* browser that was live is closed; the process then exits with a non-zero
\* status, whatever the message and the outcome of the close attempt.
C9_ForceClosedThenExit ==
  /\ (mpc = "ce_close" /\ cpc["main"] = "done") => liveAtError \notin liveB
  /\ chainErr => \/ mpc = "ce_close" /\ exitBy = "none"
                 \/ exitBy = "chainError" /\ exitCode > 0

\* C9, the termination half: after a chain error the handler never returns; it
\* makes one close attempt and exits with status 1
C9_AlwaysExits ==
  chainErr => \/ mpc = "ce_close" /\ exitBy = "none" /\ hcloses = 1
              \/ exitBy = "chainError" /\ exitCode = 1 /\ hcloses = 1

\* C10: on every path by which a run ends (runAgent returns, runAgent throws,
\* a fatal tool error, a chain error, main's catch block, SIGINT, an uncaught
\* exception) a session-close attempt has been made since the failure or
\* completion and before the exit or return.
C10_CloseOnEveryPath ==
  /\ mpc \in {"ra_ret", "main_done", "ra_threw"} => hcloses >= 1
  /\ exitBy \in {"toolError", "chainError", "mainCatch"} => hcloses >= 1
  /\ exitBy \in Signals => sigCloses >= 1

\* C10 witness: SIGINT arrived while a page action was running; the handler's
\* close attempt was made and the process exited with status 0
C10_Witness ==
  /\ exitBy = "SIGINT" /\ exitCode = 0
  /\ sigCloses = 1 /\ nTools = 1

\* C11: when the planner run completes, runAgent makes exactly one session
\* close attempt, and whatever the outcome of that attempt (also when it
\* throws) runAgent goes on to return the planner's result: it never throws
\* after the completion close.
C11_OneCloseThenReturn ==
  /\ [](mpc \in {"ra_close", "ra_ret", "main_done"} => hcloses = 1)
  /\ [][mpc = "ra_close" => mpc' \in {"ra_close", "ra_ret"}]_vars

\* C11 witness: the completion close threw and runAgent has returned
C11_Witness ==
  /\ mpc = "ra_ret" /\ cres["main"] = "threw"
  /\ hcloses = 1 /\ exitBy = "none"

\* C12: a closeBrowser request returns the "closed" confirmation exactly when
\* a session was live in the store at the time of the request, and the store
\* then holds no session (once the reset it started is over); it returns the
\* "no session" confirmation exactly when no session was live.
C12_ResultMatchesStore ==
  \A inv \in Invokers :
     cpc[inv] = "done" =>
        /\ cres[inv] = "closed" <=> creq[inv] # Null
        /\ cres[inv] = "nosession" <=> creq[inv] = Null
        /\ (cres[inv] = "closed" /\ \A r \in Resets : rpc[r] \in {"idle", "done"}) =>
              (browser = Null /\ context = Null /\ page = Null)

\* C13: a closeBrowser request made when no session exists (the store holds no
\* live browser and no browser is running) returns the "no session"
\* confirmation and raises no error.
C13_NoSessionNoError ==
  \A inv \in Invokers :
     (cpc[inv] = "done" /\ creq[inv] = Null /\ liveB = {}) => cres[inv] = "nosession"

\* C13, the part that holds: a request that returns the "no session"
\* confirmation has launched nothing and has left the store as it was
C13_NoSessionBranchIsPure ==
  [][\A inv \in Invokers :
        (cpc[inv] = "idle" /\ cpc'[inv] = "done" /\ cres'[inv] = "nosession") =>
           (storeVars' = storeVars /\ worldVars' = worldVars /\ resetVars' = resetVars)]_vars

\* C14: a getBrowser() call made when the store holds a browser and a page
\* that is not closed returns at once exactly that browser and that page,
\* launches nothing, and leaves browser, context, page and the initializing
\* flag as they were.
C14_ReuseFrame ==
  [][\A t \in Callers :
        ( /\ pc[t] = "idle" /\ pc'[t] # "idle"
          /\ browser # Null /\ page # Null /\ page \in openP ) =>
           /\ pc'[t] = "gb_done"
           /\ ret'[t] = <<browser, page>>
           /\ <<browser, context, page, isInitializing>>' =
                 <<browser, context, page, isInitializing>>
           /\ <<nextId, liveB, openC, openP>>' = <<nextId, liveB, openC, openP>>]_vars

\* C14 witness: a call has found the Ready session of an earlier call and has
\* returned it; one browser was launched in all
C14_Witness ==
  \E t \in Callers :
     /\ pc[t] = "gb_done" /\ how[t] = "reuse"
     /\ ret[t] = <<1, 1>>
     /\ browser = 1 /\ context = 1 /\ page = 1 /\ ~isInitializing
     /\ nextId = 1

\* C15: in reset() a failed close does not keep the closes of the remaining
\* levels from being attempted: no reset leaves out the close of the context
\* or of the browser because the close of the page or of the context failed.
C15_LaterClosesAttempted ==
  \A r \in Resets : rskip[r] = {}

\* C16: reset() never throws (every activation that ends, ends by running off
\* its finally block), and at the moment it completes the store holds no
\* page, no context and no browser, whichever close step failed.
C16_ResetAlwaysEmpties ==
  /\ [](\A r \in Resets : rpc[r] \in {"idle", "page", "ctx", "brw", "done"})
  /\ [][\A r \in Resets :
          (rpc[r] # "done" /\ rpc'[r] = "done") =>
             (page' = Null /\ context' = Null /\ browser' = Null)]_vars

\* C16 witness: a reset whose page close failed has completed; the store is empty
C16_Witness ==
  /\ rpc[1] = "done" /\ nEnv = 1 /\ "brw" \in rskip[1]
  /\ page = Null /\ context = Null /\ browser = Null

\* C17: closing is idempotent and never escalates. A reset() begun on a store
\* that holds no session ends in the same step with the store still empty; a
\* closeBrowserTool call (by a handler, runAgent, main or forceCloseBrowser)
\* that completes on a store that holds no session leaves it holding none; and
\* the process exits through the uncaught-exception path only when an uncaught
\* exception arrived, never because a close threw.
NoSession == browser = Null /\ context = Null /\ page = Null
C17_IdempotentClose ==
  /\ [][\A r \in Resets :
          (rpc[r] = "idle" /\ rpc'[r] # "idle" /\ NoSession)
             => (rpc'[r] = "done" /\ NoSession')]_vars
  /\ [][\A inv \in Invokers :
          (cpc[inv] # "done" /\ cpc'[inv] = "done" /\ NoSession) => NoSession']_vars
  /\ [][(exitBy = "none" /\ exitBy' = "uncaught") => spc = "uncaught"]_vars
\* forceCloseBrowser() has run on a session an earlier close had already closed:
\* two reset() calls are over, one browser was ever launched, nothing is live
C17_Witness ==
  /\ cpc["sig"] = "done" /\ cres["sig"] = "closed" /\ creq["sig"] = Null
  /\ rpc[1] = "done" /\ rpc[2] = "done"
  /\ nextId = 1 /\ liveB = {} /\ NoSession

\* C18: when the process has exited from its SIGINT or uncaughtException
\* handler, forceCloseBrowser() was called once and had returned, and no
\* browser is live.
C18_ClosedBeforeSignalExit ==
  exitBy \in Signals => (sigCloses = 1 /\ liveB = {})

\* C19: in a navigate attempt whose URL load succeeded and whose page is still
\* open, a failed wait for the DOM content (a timeout) leaves the attempt a
\* success: the executor neither delays for another attempt nor throws.
C19_DomTimeoutKeepsSuccess ==
  (verb = "navigate" /\ navLoaded /\ oppage \in openP
     /\ lastError = <<"navdom", opCalls>>) => mpc = "ex_ok"

\* C20: a failed pre-operation load-state wait does not consume the attempt.
\* The step that ends the wait invokes the operation in the same attempt and
\* leaves the retry counter and the last error alone; and between attempts of
\* a generic action the retry counter counts the failed acquisitions and the
\* failed operation invocations only, success being the operation's own.
C20_WaitFailureNotCounted ==
  /\ [](Running /\ verb = "generic" /\ mpc \in {"ex_acq", "ex_wait", "ex_delay", "ex_ok", "ex_threw"}
          => /\ retries = acqFails + (IF opCalls <= failN THEN opCalls ELSE failN)
             /\ mpc = "ex_ok" => opCalls = failN + 1)
  /\ [][(mpc = "ex_wait" /\ mpc' # "ex_wait")
          => /\ opCalls' = opCalls + 1
             /\ mpc' = (IF verb = "navigate" THEN "nav_load" ELSE "ex_op")
             /\ retries' = retries /\ lastError' = lastError /\ delays' = delays]_vars
\* the wait of the first attempt failed, the operation ran in that attempt and
\* succeeded: no retry was spent
C20_Witness ==
  /\ verb = "generic" /\ mpc = "ex_ok"
  /\ waitFails = 1 /\ opCalls = 1 /\ retries = 0 /\ acqFails = 0

\* C21: every attempt of safeBrowserOperation begins with a getBrowser() call of
\* its own and invokes the operation on the page that call returned, a page
\* that was open when it was returned; an attempt that begins when the page of
\* the attempt before it is closed does not get that page back: its
\* getBrowser() call starts a launch.
C21_AcquiresAnew ==
  /\ [][(mpc # "ex_acq" /\ mpc' = "ex_acq") => (pc[Exec] = "idle" /\ pc'[Exec] # "idle")]_vars
  /\ [][(mpc = "ex_acq" /\ mpc' = "ex_wait")
          => (pc[Exec] = "gb_done" /\ oppage' = ret[Exec][2])]_vars
  /\ [][(pc[Exec] # "gb_done" /\ pc'[Exec] = "gb_done") => ret'[Exec][2] \in openP']_vars
  /\ [][(mpc = "ex_delay" /\ mpc' = "ex_acq" /\ oppage # Null /\ oppage \notin openP)
          => (pc'[Exec] = "gb_launch" /\ isInitializing')]_vars
\* the page of the first attempt was closed and the attempt failed; the second
\* attempt launched a session and its operation is running on the new, open page
C21_Witness ==
  /\ mpc = "ex_op" /\ opCalls = 2 /\ retries = 1
  /\ oppage = 2 /\ 1 \notin openP /\ 2 \in openP /\ page = 2

\* C22: a getBrowser() call whose launch, context creation or page creation
\* fails ends by throwing in that step, with isInitializing false and no new
\* launch begun; a call enters the launch section from its entry or from the
\* poll loop only, never from a failed launch step.
LaunchSteps == {"gb_launch", "gb_ctx", "gb_page"}
C22_LaunchFailureThrows ==
  /\ [][\A t \in Callers :
          (pc[t] \in LaunchSteps /\ pc'[t] \notin LaunchSteps /\ pc'[t] # "gb_done")
             => (pc'[t] = "gb_threw" /\ ~isInitializing' /\ nextId' = nextId
                 /\ ret'[t] = <<Null, Null>>)]_vars
  /\ [][\A t \in Callers :
          (pc[t] # "gb_launch" /\ pc'[t] = "gb_launch") => pc[t] \in {"idle", "gb_poll"}]_vars
  /\ [][\A t \in Callers : pc[t] = "gb_threw" => pc'[t] = "gb_threw"]_vars
\* the context creation of the first launch failed: the call has thrown, the
\* flag is false, the launched browser is the only one
C22_Witness ==
  /\ pc[1] = "gb_threw" /\ how[1] = "launch"
  /\ browser = 1 /\ context = Null /\ page = Null
  /\ ~isInitializing /\ nextId = 1 /\ nEnv = 1

\* ------------------------------------------- ToolCallLogger.handleChainEnd
\* the pieces the agent's final summaries are put together from
MaxWords == 3
Words ==
  { <<"P", "A", "S", "S", "E", "D">>, <<"F", "A", "I", "L", "E", "D">>,
    <<"P", "A", "S", "S">>, <<"E", "D">>, <<"f", "a", "i", "l", "e", "d">>, <<" ">> }

RECURSIVE Texts(_)
Texts(n) ==
  IF n = 0 THEN {<< >>}
  ELSE LET shorter == Texts(n - 1)
       IN shorter \cup {t \o w : t \in shorter, w \in Words}

KwPassed == <<"P", "A", "S", "S", "E", "D">>
KwFailed == <<"F", "A", "I", "L", "E", "D">>

\* output.output of the chain's values: absent, or a text (the empty one too)
Outputs ==
  {[present |-> FALSE, text |-> << >>]}
    \cup {[present |-> TRUE, text |-> t] : t \in Texts(MaxWords)}

\* const testResult = output.output ? output.output.toString() : ""
TestResult(o) == IF o.present /\ o.text # << >> THEN o.text ELSE << >>

\* the chain of includes() tests, FAILED tested first
Classify_failedFirst(o) ==
  IF Includes(TestResult(o), KwFailed) THEN "FAILED"
  ELSE IF Includes(TestResult(o), KwPassed) THEN "PASSED"
  ELSE "COMPLETED"
\* if (testResult.includes("PASSED")) ... else if (testResult.includes("FAILED")) ... else
Classify(o) ==
  IF Includes(TestResult(o), KwPassed) THEN "PASSED"
  ELSE IF Includes(TestResult(o), KwFailed) THEN "FAILED"
  ELSE "COMPLETED"

\* the chain ends with some output
InitChainEnd ==
  /\ InitStore /\ InitRun /\ InitPop
  /\ output \in Outputs
  /\ verdict = "none"

\* handleChainEnd(output)
HandleChainEnd ==
  /\ verdict = "none"
  /\ verdict' = Classify(output)
  /\ UNCHANGED <<output, popVars, storeVars, worldVars, gbVars, resetVars, envVars,
                 histVars, execVars, navVars, closeVars, mpc, spc, exitCode, exitBy,
                 errMsg, nTools, hcloses, sigCloses, liveAtError, chainErr, caught>>

NextChainEnd == HandleChainEnd

SpecChainEnd == InitChainEnd /\ [][NextChainEnd]_vars

\* C23: the level handleChainEnd logs is one of PASSED, FAILED, COMPLETED;
\* it is PASSED exactly when the summary contains "PASSED" (also when it
\* contains "FAILED" as well), FAILED exactly when it contains "FAILED" and not
\* "PASSED", and COMPLETED exactly when it contains neither, an absent summary
\* included.
C23_ChainEndLevel ==
  verdict # "none" =>
    LET hasP == output.present /\ Includes(output.text, KwPassed)
        hasF == output.present /\ Includes(output.text, KwFailed)
    IN /\ verdict \in {"PASSED", "FAILED", "COMPLETED"}
       /\ verdict = "PASSED" <=> hasP
       /\ verdict = "FAILED" <=> (hasF /\ ~hasP)
       /\ verdict = "COMPLETED" <=> (~hasF /\ ~hasP)
\* a summary with both substrings, FAILED first, was logged as PASSED
C23_Witness ==
  /\ verdict = "PASSED"
  /\ output.present /\ output.text = KwFailed \o <<" ">> \o KwPassed

\* ------------------------------------------------------ handleCommonPopups
MaxMatches == 2
MaxRuns == 2
MaxDialogs == 1

\* everything but the popup helper's own state
popFrame == <<storeVars, worldVars, gbVars, resetVars, envVars, histVars, execVars, navVars,
              closeVars, mpc, spc, exitCode, exitBy, errMsg, nTools, hcloses, sigCloses,
              liveAtError, chainErr, caught, logVars>>

\* what the selectors find: at most MaxMatches of them match an element, which
\* is visible and clickable, or hidden (not visible, or not clickable)
Pages ==
  UNION { { [i \in Selectors |-> IF i \in S THEN f[i] ELSE "absent"] :
              f \in [S -> {"hidden", "clickable"}] } :
          S \in {T \in SUBSET Selectors : Cardinality(T) <= MaxMatches} }

\* a page with some consent elements on it; handleCommonPopups not yet called
InitPopups ==
  /\ InitStore /\ InitRun /\ InitLog
  /\ status \in Pages
  /\ popOpen = TRUE
  /\ ppc = "idle" /\ idx = 0 /\ clicks = << >> /\ clicked = FALSE
  /\ handlers = 0 /\ runs = 0 /\ dismissals = << >>

\* const count = await button.count(); if (count > 0)
Matches(i) == status[i] # "absent"

\* handleCommonPopups(page): page.on("dialog", ...), then the loop up to its
\* first await, the count() of the first selector
PopCall ==
  /\ ppc \in {"idle", "done", "threw"}
  /\ runs < MaxRuns
  /\ runs' = runs + 1
  /\ handlers' = handlers + 1
  /\ idx' = 1 /\ clicks' = << >> /\ clicked' = FALSE
  /\ ppc' = "count"
  /\ UNCHANGED <<status, popOpen, dismissals, popFrame>>

\* count() settles: it rejects on a closed page, which ends the call with that
\* error; a match is clicked; no match moves on to the next selector
PopCount ==
  /\ ppc = "count"
  /\ IF ~popOpen
       THEN ppc' = "threw" /\ UNCHANGED <<idx, clicks>>
       ELSE IF Matches(idx)
         THEN ppc' = "click" /\ clicks' = Append(clicks, idx) /\ UNCHANGED idx
         ELSE IF idx < NSelectors
           THEN idx' = idx + 1 /\ UNCHANGED <<ppc, clicks>>
           ELSE ppc' = "done" /\ UNCHANGED <<idx, clicks>>
  /\ UNCHANGED <<status, popOpen, clicked, handlers, runs, dismissals, popFrame>>

\* the loop goes on with the next selector after a click
AfterClick_continue ==
  IF idx < NSelectors
    THEN idx' = idx + 1 /\ ppc' = "count"
    ELSE ppc' = "done" /\ UNCHANGED idx
\* break
AfterClick ==
  ppc' = "done" /\ UNCHANGED idx

\* await button.click().catch(...) settles: the click resolves on a visible,
\* clickable element of an open page and rejects into its catch otherwise
PopClick ==
  /\ ppc = "click"
  /\ clicked' = (popOpen /\ status[idx] = "clickable")
  /\ AfterClick
  /\ UNCHANGED <<status, popOpen, clicks, handlers, runs, dismissals, popFrame>>

\* the page is closed from outside
PopPageClosed ==
  /\ popOpen
  /\ popOpen' = FALSE
  /\ UNCHANGED <<status, ppc, idx, clicks, clicked, handlers, runs, dismissals, popFrame>>

\* a native dialog appears: every registered listener calls dialog.dismiss()
DialogAppears ==
  /\ popOpen
  /\ Len(dismissals) < MaxDialogs
  /\ dismissals' = Append(dismissals, handlers)
  /\ UNCHANGED <<status, popOpen, ppc, idx, clicks, clicked, handlers, runs, popFrame>>

NextPopups ==
  \/ PopCall \/ PopCount \/ PopClick
  \/ PopPageClosed \/ DialogAppears

SpecPopups == InitPopups /\ [][NextPopups]_vars

\* C24: one invocation of handleCommonPopups clicks at most once; what it
\* clicks is the first selector in list order that matches an element; when no
\* selector matches it ends without a click.
FirstMatch == CHOOSE i \in Selectors : Matches(i) /\ \A j \in Selectors : j < i => ~Matches(j)
C24_OneClickFirstMatch ==
  /\ Len(clicks) <= 1
  /\ clicks # << >> => clicks[1] = FirstMatch
  /\ (\A i \in Selectors : ~Matches(i)) => clicks = << >>
\* two selectors match; the call has ended after its one click, on the earlier
C24_Witness ==
  /\ ppc = "done" /\ clicks = <<3>> /\ clicked
  /\ status[3] = "clickable" /\ status[8] = "clickable"

\* C25: what an invocation of handleCommonPopups clicks is a visible, clickable
\* element, the first such in list order; an invocation that ends on a page
\* with such an element has clicked it.
C25_ClicksFirstClickable ==
  /\ clicks # << >> =>
       /\ status[clicks[1]] = "clickable"
       /\ \A j \in Selectors : j < clicks[1] => status[j] # "clickable"
  /\ (ppc = "done" /\ \E i \in Selectors : status[i] = "clickable") => clicks # << >>

\* C26: an invocation of handleCommonPopups never ends by throwing to its
\* caller, whatever step of the scan fails.
C26_NeverThrows ==
  ppc # "threw"

\* C27: every dialog that appears on a page on which handleCommonPopups has
\* run gets exactly one dismiss() call, whatever the number of runs.
C27_DismissedOnce ==
  \A d \in 1..Len(dismissals) : dismissals[d] >= 1 => dismissals[d] = 1

\* C28: at most one getBrowser() call is inside the launch section at any
\* time, and isInitializing is true exactly while one is: a call that found
\* the flag false, at its entry or on leaving the poll loop, has raised it in
\* the same step.
C28_OneLaunchInFlight ==
  /\ Cardinality({t \in Callers : pc[t] \in LaunchSteps}) <= 1
  /\ isInitializing <=> \E t \in Callers : pc[t] \in LaunchSteps
\* the first caller's launch failed; the caller that was polling has left the
\* loop and is now the one launching
C28_Witness ==
  /\ pc[1] = "gb_threw" /\ how[1] = "launch"
  /\ pc[2] \in LaunchSteps /\ how[2] = "poll"
  /\ isInitializing

\* C29: in a safeBrowserOperation call the 1 s delay is taken once between
\* two consecutive attempts and at no other time: while an attempt runs and
\* after the call has ended, by a success or by the final failure, the delays
\* taken are one fewer than the attempts begun; a delay is always followed by
\* the next attempt.
ExecStates ==
  {"ex_acq", "ex_wait", "ex_op", "nav_load", "nav_backoff", "nav_dom", "ex_delay", "ex_ok",
   "ex_threw"}
Attempts == acqFails + opCalls + (IF mpc \in {"ex_acq", "ex_wait"} THEN 1 ELSE 0)
C29_DelayBetweenAttempts ==
  /\ []((mpc \in ExecStates /\ verb \in {"generic", "navigate"}) =>
          /\ Attempts >= 1
          /\ delays = (IF mpc = "ex_delay" THEN Attempts ELSE Attempts - 1))
  /\ [][delays' = delays + 1 => (mpc # "ex_delay" /\ mpc' = "ex_delay")]_vars
  /\ [][(mpc = "ex_delay" /\ mpc' # "ex_delay") => (mpc' = "ex_acq" /\ delays' = delays)]_vars
\* a call with maxRetries 1 has failed in both of its attempts: it has thrown
\* after one delay
C29_Witness ==
  /\ mpc = "ex_threw" /\ maxRetries = 1 /\ retries = 2
  /\ acqFails + opCalls = 2 /\ delays = 1

\* C30: a navigate attempt whose URL load failed in all its tries goes on to
\* the wait for the DOM content with no error raised, and when that wait
\* completes the attempt ends as a success like any other: the executor's
\* retry counter, last error and delays are untouched, and no further attempt
\* follows the success.
C30_SilentGiveUp ==
  /\ [][(mpc = "nav_load" /\ loads' = loads + 1 /\ ~navLoaded' /\ ~NavMayRetry(retryCount))
          => (mpc' = "nav_dom" /\ retries' = retries /\ lastError' = lastError)]_vars
  /\ [](mpc = "nav_dom" /\ ~navLoaded
          => (loads = MaxNavRetries + 1 /\ retryCount = MaxNavRetries))
  /\ [][(mpc = "nav_dom" /\ ~navLoaded /\ mpc' # "nav_dom" /\ lastError' = lastError)
          => (mpc' = "ex_ok" /\ retries' = retries /\ delays' = delays
              /\ opCalls' = opCalls)]_vars
  /\ [][(mpc = "ex_ok" /\ mpc' # "ex_ok") => mpc' \notin ExecStates]_vars
\* all four loads of the first attempt failed, after waits of 5, 10 and 15 s;
\* the wait for the DOM content completed and the attempt is a success
C30_Witness ==
  /\ verb = "navigate" /\ mpc = "ex_ok"
  /\ loads = 4 /\ ~navLoaded /\ waits = <<5000, 10000, 15000>>
  /\ retries = 0 /\ opCalls = 1 /\ delays = 0 /\ lastError = <<"none", 0>>

\* C31: in the step in which a getBrowser() call returns, the browser it
\* returns is not null and the page it returns is not null and is open.
C31_ReturnsUsableSession ==
  [][\A t \in Callers :
       (pc[t] # "gb_done" /\ pc'[t] = "gb_done")
          => (ret'[t][1] # Null /\ ret'[t][2] # Null /\ ret'[t][2] \in openP')]_vars

\* C32: as long as no reset() has been called, every browser that was launched
\* and is not closed is the one the store's browser field refers to.
C32_NoOrphanBrowser ==
  nReset = 0 => liveB \subseteq {browser}

\* C33: whenever no getBrowser() call is inside the launch section, the
\* store's browser, context and page are all null or all non-null.
C33_AllOrNothing ==
  (\A t \in Callers : pc[t] \notin LaunchSteps) =>
     \/ browser = Null /\ context = Null /\ page = Null
     \/ browser # Null /\ context # Null /\ page # Null

\* ---------------------------------------- the store under fair scheduling
\* The poll loop's 100 ms timer fires, so a waiting call gets its turn; and
\* every awaited driver call of a launch settles, resolved or rejected.
LaunchSettles(t) == GbLaunched(t) \/ GbContext(t) \/ GbPage(t) \/ GbFail(t)
FairStore ==
  \A t \in Callers : WF_vars(GbPoll(t)) /\ WF_vars(LaunchSettles(t))

SpecStoreFair == Init /\ [][NextStore]_vars /\ FairStore

\* C34: every getBrowser() call that has begun eventually returns or throws.
C34_EveryCallEnds ==
  \A t \in Callers : (pc[t] # "idle") ~> (pc[t] \in {"gb_done", "gb_threw"})
\* the launch of the first caller failed; the caller that was polling
\* meanwhile has launched itself and returned
C34_Witness ==
  /\ pc[1] = "gb_threw" /\ how[1] = "launch"
  /\ pc[2] = "gb_done" /\ how[2] = "poll" /\ ret[2] = <<2, 2>>

\* C35: when a closeBrowserTool call has returned "Browser closed
\* successfully", no reset() is still under way and the store holds no
\* session.
C35_ResetDoneOnReturn ==
  \A inv \in Invokers :
     (cpc[inv] = "done" /\ cres[inv] = "closed")
        => ((\A r \in Resets : rpc[r] \in {"idle", "done"}) /\ NoSession)

\* C36: one navigate request performs at most four loads of the URL in
\* all (the first and three retries), over all the attempts of the executor.
C36_LoadBudget == verb = "navigate" => reqLoads <= MaxNavRetries + 1

\* C37: a failed acquisition of the session inside safeBrowserOperation is a
\* failed attempt: the step in which ensureBrowser() throws leaves the
\* operation uninvoked, uses up one retry of the one maxRetries budget and
\* makes the launch error the last error; the acquisitions that failed and
\* the invocations of the operation together number at most maxRetries + 1;
\* and when the failed acquisition was the last attempt, the error the
\* executor throws is that launch error.
C37_AcquireFailureIsAttempt ==
  /\ [][(mpc = "ex_acq" /\ acqFails' = acqFails + 1)
          => /\ opCalls' = opCalls
             /\ retries' = retries + 1
             /\ lastError' = <<"launch", 0>>
             /\ mpc' = IF retries + 1 <= maxRetries THEN "ex_delay" ELSE "ex_threw"]_vars
  /\ []((mpc \in ExecStates /\ verb \in {"generic", "navigate"})
          => /\ retries <= maxRetries + 1
             /\ acqFails + opCalls <= maxRetries + 1
             /\ acqFails <= retries)
  /\ [][(mpc = "ex_threw" /\ mpc' = "ex_threw") => lastError' = lastError]_vars

\* a request with maxRetries = 0 whose only attempt failed to launch: the
\* operation was never invoked, the budget is used up and the launch error
\* is what the executor throws
C37_Witness ==
  /\ mpc = "ex_threw" /\ verb = "generic" /\ maxRetries = 0
  /\ acqFails = 1 /\ opCalls = 0 /\ retries = 1
  /\ lastError = <<"launch", 0>>

\* C38: when createAgentWithMemory or the planner run rejects inside
\* runAgent, the catch block starts one closeBrowserTool call, and once that
\* call is over, resolved or thrown, runAgent throws the error it caught,
\* never the error of the close attempt.
C38_RethrowsOriginal ==
  /\ [][(mpc # "rc_close" /\ mpc' = "rc_close")
          => /\ cpc'["main"] # "idle"
             /\ hcloses' = 1
             /\ caught'.error = "original"]_vars
  /\ [][(mpc = "rc_close" /\ mpc' \notin {"rc_close", "exited"})
          => /\ cpc["main"] = "done"
             /\ mpc' = "ra_threw"
             /\ caught'.error = "original"
             /\ caught'.closeError = (cres["main"] = "threw")]_vars
  /\ [](mpc = "ra_threw" => caught.error = "original")

\* runAgent has thrown the error it caught after a close attempt that threw
C38_Witness ==
  /\ mpc = "ra_threw"
  /\ caught = [error |-> "original", closeError |-> TRUE]
  /\ cpc["main"] = "idle"

====
